---- MODULE Spec2Model ----
(***************************************************************************)
(* Model of Job_tracker_sheet.py: the two tracker builders                 *)
(* create_excel_job_tracker (openpyxl workbook written to a file) and      *)
(* create_google_sheets_job_tracker (gspread calls against a remote        *)
(* document), the CLI entry point main, and the spreadsheet engine's       *)
(* evaluation of the rules and formulas the builders emit.                 *)
(*                                                                         *)
(* Strings of the source are TLA+ strings.  The one string the code asks   *)
(* a library to take apart (the comma separated allow-list handed to       *)
(* DataValidation) is a sequence of characters, split as the engine does.  *)
(* A1 references are records of a column letter and a row number; the      *)
(* letter <-> index conversions are those of get_column_letter and         *)
(* gspread.utils.rowcol_to_a1.                                             *)
(***************************************************************************)
EXTENDS Integers, Sequences, FiniteSets, TLC

VARIABLES
    pc,         \* position of the running function ("idle" between runs)
    args,       \* arguments of the running call
    outcome,    \* how the last call ended: "none", "returned", "raised"
    ret,        \* value the last call returned ("None" or the document URL)
    printed,    \* messages printed by the current / last run
    invoked,    \* builders invoked by the current / last run, in order
    built,      \* instructions constructed so far by the current run
    handed,     \* sink operations issued so far by the current run, in order
    wb,         \* the in-memory workbook of create_excel_job_tracker
    disk,       \* output file name -> workbook stored under that name
    requests,   \* the list `requests` of create_google_sheets_job_tracker
    docs,       \* the remote documents, in creation order
    api_calls,  \* number of remote calls issued over all runs
    calls       \* number of runs started

vars == <<pc, args, outcome, ret, printed, invoked, built, handed, wb, disk,
          requests, docs, api_calls, calls>>

---------------------------------------------------------------------------
(* Bounds of the model *)

\* number of runs (calls of a builder or of main) in one behaviour
MaxCalls == 2
\* number of rows a user adds to a finished tracker
MaxRows == 3

---------------------------------------------------------------------------
(* Generic helpers *)

Range(s) == {s[i] : i \in DOMAIN s}

Last(s) == s[Len(s)]

RECURSIVE JoinChars(_)
\* a sequence of characters as a string
JoinChars(cs) == IF cs = <<>> THEN "" ELSE Head(cs) \o JoinChars(Tail(cs))

RECURSIVE SplitComma(_, _)
\* str.split(',') on a sequence of characters: the strings between commas
SplitComma(cs, cur) ==
    IF cs = <<>> THEN <<JoinChars(cur)>>
    ELSE IF Head(cs) = "," THEN <<JoinChars(cur)>> \o SplitComma(Tail(cs), <<>>)
    ELSE SplitComma(Tail(cs), Append(cur, Head(cs)))

ColumnLetters ==
    <<"A", "B", "C", "D", "E", "F", "G", "H", "I", "J", "K", "L", "M",
      "N", "O", "P", "Q", "R", "S", "T", "U", "V", "W", "X", "Y", "Z">>

\* openpyxl.utils.get_column_letter, for the single-letter columns
get_column_letter(n) == ColumnLetters[n]

\* the inverse (openpyxl column_index_from_string / the engine reading "I")
ColumnIndexOf ==
    [letter \in Range(ColumnLetters) |->
        CHOOSE n \in DOMAIN ColumnLetters : ColumnLetters[n] = letter]
column_index(letter) == ColumnIndexOf[letter]

\* gspread.utils.rowcol_to_a1(row, col) -> "I2", as a cell reference
rowcol_to_a1(row, col) == [col |-> ColumnLetters[col], row |-> row]

\* "<start>:<end>"
A1Range(start, end) == [c1 |-> start.col, r1 |-> start.row, c2 |-> end.col, r2 |-> end.row]

\* the cells (row, column index) of an A1 range
InRange(rg, row, col) ==
    /\ rg.r1 <= row /\ row <= rg.r2
    /\ column_index(rg.c1) <= col /\ col <= column_index(rg.c2)

\* a spreadsheet's last row (Excel: 2^20 rows)
XlMaxRow == 1048576

---------------------------------------------------------------------------
(* create_excel_job_tracker: the values it builds *)

xl_headers ==
    <<"#", "Company Name", "Job Title", "Job Location", "Date Applied",
      "Job Posting Link", "Resume Link", "Cover Letter Link",
      "Application Status", "Follow-Up Date", "Response Received?", "Notes">>

\* the two demonstration rows; dates are symbolic (today, three days ago)
sample_data ==
    << ("#" :> "1" @@ "Company Name" :> "Tech Corp" @@ "Job Title" :> "Software Engineer"
          @@ "Date Applied" :> "today" @@ "Application Status" :> "Applied"),
       ("#" :> "2" @@ "Company Name" :> "Data Inc" @@ "Job Title" :> "Data Analyst"
          @@ "Date Applied" :> "today-3d" @@ "Application Status" :> "Interview Scheduled") >>

\* pd.DataFrame(columns=headers) concatenated with the sample rows and written
\* by to_excel: row 1 the column labels, then one row per sample, each value
\* under the column of its key, blank where the sample has no such key
DataFrameRows(hdrs, samples) ==
    <<hdrs>> \o
    [k \in 1..Len(samples) |->
        [i \in 1..Len(hdrs) |->
            IF hdrs[i] \in DOMAIN samples[k] THEN samples[k][hdrs[i]] ELSE ""]]

xl_column_widths ==
    ("A" :> 5 @@ "B" :> 25 @@ "C" :> 25 @@ "D" :> 20 @@ "E" :> 15 @@ "F" :> 40
      @@ "G" :> 40 @@ "H" :> 40 @@ "I" :> 20 @@ "J" :> 15 @@ "K" :> 20 @@ "L" :> 40)

\* the text between the quotes of formula1
xl_formula1 ==
    <<"A", "p", "p", "l", "i", "e", "d", ",", "I", "n", "t", "e", "r", "v", "i", "e", "w", " ",
      "S", "c", "h", "e", "d", "u", "l", "e", "d", ",", "O", "f", "f", "e", "r", ",", "R", "e",
      "j", "e", "c", "t", "e", "d", ",", "F", "o", "l", "l", "o", "w", "e", "d", " ", "U", "p",
      ",", "N", "o", " ", "R", "e", "s", "p", "o", "n", "s", "e", ",", "O", "n", " ", "H", "o",
      "l", "d">>

\* DataValidation(type="list", formula1=..., allow_blank=True); dv.add('I2:I1048576')
xl_dv ==
    [type |-> "list", formula1 |-> xl_formula1, allow_blank |-> TRUE,
     sqref |-> [c1 |-> "I", r1 |-> 2, c2 |-> "I", r2 |-> XlMaxRow]]

\* the dict literal status_colors, as its items in order
xl_status_colors ==
    << <<"Applied", "ADD8E6">>, <<"Interview Scheduled", "90EE90">>, <<"Offer", "FFFF00">>,
       <<"Rejected", "FF9999">>, <<"Followed Up", "FFA500">>, <<"No Response", "D3D3D3">>,
       <<"On Hold", "E6E6FA">> >>

\* the formula written against the header row: $I1="<status>"
StatusFormulaRow1(status) ==
    [col |-> "I", row |-> 1, op |-> "=", literal |-> status]

\* the formula $I2="<status>": column absolute, row relative to the range's first row
StatusFormula(status) ==
    [col |-> "I", row |-> 2, op |-> "=", literal |-> status]

\* FormulaRule(formula=[f'$I2="{status}"'], fill=PatternFill(color))
xl_rule(status, color) == [formula |-> StatusFormula(status), fill |-> color]

\* the range the rule is added to for column number col
xl_cf_range(col) ==
    [c1 |-> get_column_letter(col), r1 |-> 2, c2 |-> get_column_letter(col), r2 |-> XlMaxRow]

\* the loop written as range(1, 12)
xl_cf_columns_short == 1..11

\* the columns the inner loop `for col in range(1, 13)` visits
xl_cf_columns == 1..12

\* worksheet.conditional_formatting after the two nested loops
xl_conditional_formatting ==
    {[sqref |-> xl_cf_range(col),
      rule |-> xl_rule(xl_status_colors[k][1], xl_status_colors[k][2])] :
        k \in DOMAIN xl_status_colors, col \in xl_cf_columns}

\* worksheet.freeze_panes = 'A2'
xl_freeze_panes == [col |-> "A", row |-> 2]

\* COUNTIF('Job Applications'!I:I,"<criterion>")
CountIfFormula(criterion) ==
    [fn |-> "COUNTIF", sheet |-> "Job Applications", c1 |-> "I", c2 |-> "I",
     criterion |-> criterion]

\* a cell that holds a text, not a formula
NoFormula ==
    [fn |-> "", sheet |-> "", c1 |-> "", c2 |-> "", criterion |-> ""]

xl_metrics ==
    << <<"Total Applied", CountIfFormula("*")>>,
       <<"Interviews", CountIfFormula("Interview Scheduled")>>,
       <<"Offers", CountIfFormula("Offer")>>,
       <<"Rejections", CountIfFormula("Rejected")>>,
       <<"Follow-ups Needed", CountIfFormula("Followed Up")>>,
       <<"No Response", CountIfFormula("No Response")>> >>

\* the cells the metric loop writes: label at (row, col), value at (row+1, col),
\* for i = 0..5, row = 3 + (i // 2) * 3, col = 2 + (i % 2) * 5
xl_metric_cells ==
    UNION {
        LET i == k - 1
            row == 3 + (i \div 2) * 3
            col == 2 + (i % 2) * 5
        IN {[row |-> row, col |-> col, what |-> "label", label |-> xl_metrics[k][1],
             formula |-> xl_metrics[k][2]],
            [row |-> row + 1, col |-> col, what |-> "value", label |-> xl_metrics[k][1],
             formula |-> xl_metrics[k][2]]}
        : k \in DOMAIN xl_metrics}

\* Reference(worksheet, min_col, min_row, max_row): one column
Reference(min_col, min_row, max_row) ==
    [min_col |-> min_col, max_col |-> min_col, min_row |-> min_row, max_row |-> max_row]

\* the pie chart with its labels taken from row 1 on
xl_pie_labels_from_row1 ==
    [type |-> "pie", title |-> "Application Status Distribution",
     categories |-> Reference(9, 1, 100), data |-> Reference(9, 1, 100),
     titles_from_data |-> TRUE, anchor |-> [col |-> "A", row |-> 15]]

xl_pie ==
    [type |-> "pie", title |-> "Application Status Distribution",
     categories |-> Reference(9, 2, 100), data |-> Reference(9, 1, 100),
     titles_from_data |-> TRUE, anchor |-> [col |-> "A", row |-> 15]]

xl_bar ==
    [type |-> "bar", title |-> "Daily Applications",
     categories |-> Reference(5, 2, 100), data |-> Reference(1, 1, 100),
     titles_from_data |-> TRUE, anchor |-> [col |-> "I", row |-> 15]]

\* no workbook / no file
NoWorkbook ==
    [kind |-> "none", cells |-> <<>>, bold |-> {}, column_dimensions |-> <<>>,
     data_validations |-> {}, conditional_formatting |-> {},
     freeze_panes |-> [col |-> "A", row |-> 1], sheets |-> <<>>,
     dashboard_cells |-> {}, charts |-> <<>>]

---------------------------------------------------------------------------
(* create_google_sheets_job_tracker: the values it builds *)

\* the remote labels with two of them exchanged
gs_headers_swapped ==
    <<"#", "Company Name", "Job Title", "Job Location", "Date Applied",
      "Job Posting Link", "Resume Link", "Cover Letter Link",
      "Follow-Up Date", "Application Status", "Response Received?", "Notes">>

gs_headers ==
    <<"#", "Company Name", "Job Title", "Job Location", "Date Applied",
      "Job Posting Link", "Resume Link", "Cover Letter Link",
      "Application Status", "Follow-Up Date", "Response Received?", "Notes">>

\* worksheet.format('A1:L1', {"textFormat": {"bold": True}})
gs_header_format ==
    [range |-> [c1 |-> "A", r1 |-> 1, c2 |-> "L", r2 |-> 1], bold |-> TRUE]

\* the dict column index -> pixel width (keys 1..12)
gs_column_widths ==
    (1 :> 50 @@ 2 :> 150 @@ 3 :> 150 @@ 4 :> 120 @@ 5 :> 100 @@ 6 :> 250
      @@ 7 :> 250 @@ 8 :> 250 @@ 9 :> 120 @@ 10 :> 100 @@ 11 :> 150 @@ 12 :> 250)

\* the allow-list with one status left out
gs_validation_rule_short ==
    [type |-> "ONE_OF_LIST",
     values |-> <<"Applied", "Interview Scheduled", "Offer", "Rejected",
                  "Followed Up", "No Response">>,
     strict |-> TRUE, showCustomUi |-> TRUE]

gs_validation_rule ==
    [type |-> "ONE_OF_LIST",
     values |-> <<"Applied", "Interview Scheduled", "Offer", "Rejected",
                  "Followed Up", "No Response", "On Hold">>,
     strict |-> TRUE, showCustomUi |-> TRUE]

\* the last row the remote validation rule is applied to
GsValidationLastRow == 1000

\* the range started at the header row
gs_range_notation_row1 == A1Range(rowcol_to_a1(1, 9), rowcol_to_a1(GsValidationLastRow, 9))

\* f"{rowcol_to_a1(2, 9)}:{rowcol_to_a1(1000, 9)}"
gs_range_notation == A1Range(rowcol_to_a1(2, 9), rowcol_to_a1(GsValidationLastRow, 9))

\* colours in thousandths of a channel
gs_status_colors ==
    << <<"Applied", [red |-> 678, green |-> 847, blue |-> 902]>>,
       <<"Interview Scheduled", [red |-> 565, green |-> 933, blue |-> 565]>>,
       <<"Offer", [red |-> 1000, green |-> 1000, blue |-> 0]>>,
       <<"Rejected", [red |-> 1000, green |-> 600, blue |-> 600]>>,
       <<"Followed Up", [red |-> 1000, green |-> 647, blue |-> 0]>>,
       <<"No Response", [red |-> 827, green |-> 827, blue |-> 827]>>,
       <<"On Hold", [red |-> 902, green |-> 902, blue |-> 980]>> >>

\* a GridRange field that is left out (the range is unbounded on that side)
Unbounded == -1

\* the GridRange of every highlight rule: zero based, end exclusive, no endRowIndex
gs_cf_range ==
    [sheet |-> "tracker", startRowIndex |-> 1, endRowIndex |-> Unbounded,
     startColumnIndex |-> 0, endColumnIndex |-> 12]

\* one addConditionalFormatRule request of the loop over status_colors
gs_cf_request(status, color) ==
    [kind |-> "addConditionalFormatRule", index |-> 0,
     rule |-> [range |-> gs_cf_range, formula |-> StatusFormula(status),
               backgroundColor |-> color]]

gs_cf_requests ==
    [k \in DOMAIN gs_status_colors |->
        gs_cf_request(gs_status_colors[k][1], gs_status_colors[k][2])]

freeze_request ==
    [kind |-> "updateSheetProperties", sheet |-> "tracker", frozenRowCount |-> 1]

\* the request dict that carries both a repeatCell and a mergeCells key
dashboard_header_request ==
    [kind |-> "repeatCell+mergeCells", sheet |-> "dashboard",
     range |-> [startRowIndex |-> 0, endRowIndex |-> 1,
                startColumnIndex |-> 0, endColumnIndex |-> 4],
     value |-> "Job Application Dashboard"]

gs_metrics ==
    << <<[col |-> "A", row |-> 3], "Total Applied", CountIfFormula("*")>>,
       <<[col |-> "G", row |-> 3], "Interviews", CountIfFormula("Interview Scheduled")>>,
       <<[col |-> "A", row |-> 8], "Offers", CountIfFormula("Offer")>>,
       <<[col |-> "G", row |-> 8], "Rejections", CountIfFormula("Rejected")>>,
       <<[col |-> "A", row |-> 13], "Follow-ups Needed", CountIfFormula("Followed Up")>>,
       <<[col |-> "G", row |-> 13], "No Response", CountIfFormula("No Response")>> >>

\* the label request of one metric: rows [int(cell[1:])-1, int(cell[1:])),
\* columns [ord(cell[0])-65, ord(cell[0])-64)
gs_label_request(m) ==
    [kind |-> "updateCells", sheet |-> "dashboard", what |-> "label",
     range |-> [startRowIndex |-> m[1].row - 1, endRowIndex |-> m[1].row,
                startColumnIndex |-> column_index(m[1].col) - 1,
                endColumnIndex |-> column_index(m[1].col)],
     label |-> m[2], formula |-> m[3]]

\* the value request of one metric: one row below the label
gs_value_request(m) ==
    [kind |-> "updateCells", sheet |-> "dashboard", what |-> "value",
     range |-> [startRowIndex |-> m[1].row, endRowIndex |-> m[1].row + 1,
                startColumnIndex |-> column_index(m[1].col) - 1,
                endColumnIndex |-> column_index(m[1].col)],
     label |-> m[2], formula |-> m[3]]

\* the requests the loop over metrics appends: label, value, label, value, ...
gs_metric_requests ==
    [j \in 1..(2 * Len(gs_metrics)) |->
        IF j % 2 = 1 THEN gs_label_request(gs_metrics[(j + 1) \div 2])
        ELSE gs_value_request(gs_metrics[j \div 2])]

\* a chart source: rows and columns zero based, end exclusive
GsSource(startRow, endRow, startCol, endCol) ==
    [sheet |-> "tracker", startRowIndex |-> startRow, endRowIndex |-> endRow,
     startColumnIndex |-> startCol, endColumnIndex |-> endCol]

pie_chart_request ==
    [kind |-> "addChart", type |-> "pie", title |-> "Application Status Distribution",
     domain |-> GsSource(1, 100, 8, 9), series |-> GsSource(0, 100, 8, 9),
     anchor |-> [sheet |-> "dashboard", rowIndex |-> 15, columnIndex |-> 0]]

bar_chart_request ==
    [kind |-> "addChart", type |-> "bar", title |-> "Daily Applications",
     domain |-> GsSource(1, 100, 4, 5), series |-> GsSource(0, 100, 0, 1),
     anchor |-> [sheet |-> "dashboard", rowIndex |-> 15, columnIndex |-> 8]]

\* spreadsheet.url of the n-th document the service created
Url(n) == "https://docs.google.com/spreadsheets/d/" \o ToString(n)

\* client.create(sheet_name): a new document with one empty first worksheet
NewDocument(name, n) ==
    [title |-> name, url |-> Url(n), sheet_title |-> "Sheet1", cells |-> <<>>,
     formats |-> {}, column_widths |-> <<>>, validations |-> {}, cf |-> <<>>,
     frozenRowCount |-> 0, has_dashboard |-> FALSE, dashboard_cells |-> {},
     merged |-> {}, charts |-> <<>>]

\* the effect of one request of a batch on the document
ApplyRequest(doc, rq) ==
    CASE rq.kind = "addConditionalFormatRule" ->
            \* inserted at rq.index = 0: in front of the rules already there
            [doc EXCEPT !.cf = <<rq.rule>> \o @]
      [] rq.kind = "updateSheetProperties" ->
            [doc EXCEPT !.frozenRowCount = rq.frozenRowCount]
      [] rq.kind = "repeatCell+mergeCells" ->
            [doc EXCEPT !.dashboard_cells = @ \cup
                            {[row |-> rq.range.startRowIndex + 1,
                              col |-> rq.range.startColumnIndex + 1,
                              what |-> "title", label |-> rq.value, formula |-> NoFormula]},
                        !.merged = @ \cup {rq.range}]
      [] rq.kind = "updateCells" ->
            [doc EXCEPT !.dashboard_cells = @ \cup
                            {[row |-> rq.range.startRowIndex + 1,
                              col |-> rq.range.startColumnIndex + 1,
                              what |-> rq.what, label |-> rq.label, formula |-> rq.formula]}]
      [] rq.kind = "addChart" ->
            [doc EXCEPT !.charts = Append(@, rq)]

RECURSIVE ApplyBatch(_, _)
\* spreadsheet.batch_update(requests): every request, in list order
ApplyBatch(doc, rqs) ==
    IF rqs = <<>> THEN doc ELSE ApplyBatch(ApplyRequest(doc, Head(rqs)), Tail(rqs))

---------------------------------------------------------------------------
(* Inputs *)

\* the default of the parameter output_file, and a name a user may type
DefaultOutputFile == "Job_Tracker.xlsx"
OutputFiles == {DefaultOutputFile, "my.xlsx"}

\* the default of the parameter sheet_name, and a name a user may type
DefaultSheetName == "Job Tracker"
SheetNames == {DefaultSheetName, "Jobs"}

\* Python's None, where a string is expected
None == "None"

\* the files that exist on the machine: os.path.exists(p) <=> p \in ExistingFiles
ExistingFiles == {"creds.json"}

\* creds_file: the default None, the empty string, a path with no file, a path with one
CredsInputs == {None, "", "missing.json", "creds.json"}

\* what input() may return for a prompt
MenuInputs == {"1", "2", "3", ""}
FilenameInputs == {"", "my.xlsx"}
SheetNameInputs == {"", "Jobs"}
CredsPathInputs == {"", "missing.json", "creds.json"}

\* `x or default`
OrDefault(x, default) == IF x = "" THEN default ELSE x

\* entered: what input() returned at the prompts of main, in order
NoArgs ==
    [choice |-> "", output_file |-> "", creds_file |-> "", sheet_name |-> "",
     entered |-> <<>>]

\* an operation issued to a sink (workbook or remote service) that took effect,
\* and one that raised instead
Op(name) == [op |-> name, ok |-> TRUE]
FailedOp(name) == [op |-> name, ok |-> FALSE]

---------------------------------------------------------------------------
(* Initial state: nothing has run, no file, no remote document *)

Init ==
    /\ pc = "idle"
    /\ args = NoArgs
    /\ outcome = "none"
    /\ ret = None
    /\ printed = <<>>
    /\ invoked = <<>>
    /\ built = {}
    /\ handed = <<>>
    /\ wb = NoWorkbook
    /\ disk = [f \in OutputFiles |-> NoWorkbook]
    /\ requests = <<>>
    /\ docs = <<>>
    /\ api_calls = 0
    /\ calls = 0

\* a fresh run: the locals of the previous run are gone
BeginRun(entry, a, who) ==
    /\ pc = "idle"
    /\ calls < MaxCalls
    /\ calls' = calls + 1
    /\ pc' = entry
    /\ args' = a
    /\ outcome' = "none"
    /\ ret' = None
    /\ printed' = <<>>
    /\ invoked' = who
    /\ built' = {}
    /\ handed' = <<>>
    /\ wb' = NoWorkbook
    /\ requests' = <<>>
    /\ UNCHANGED <<disk, docs, api_calls>>

---------------------------------------------------------------------------
(* create_excel_job_tracker, statement by statement *)

\* a direct call create_excel_job_tracker(output_file)
CallExcel ==
    \E f \in OutputFiles :
        BeginRun("xl_define", [NoArgs EXCEPT !.output_file = f], <<"excel">>)

\* a straight-line step of the function: it updates the workbook, may construct
\* instructions and may hand some to the workbook
XlStep(from, to, newwb, constructs, ops) ==
    /\ pc = from
    /\ pc' = to
    /\ wb' = newwb
    /\ built' = built \cup constructs
    /\ handed' = handed \o [i \in DOMAIN ops |-> Op(ops[i])]
    /\ UNCHANGED <<args, outcome, ret, printed, invoked, disk, requests, docs,
                   api_calls, calls>>

\* an exception leaves the function: nothing catches it
XlRaise(from, ops) ==
    /\ pc = from
    /\ pc' = "idle"
    /\ outcome' = "raised"
    /\ handed' = handed \o [i \in DOMAIN ops |-> FailedOp(ops[i])]
    /\ UNCHANGED <<args, ret, printed, invoked, built, wb, disk, requests,
                   docs, api_calls, calls>>

\* headers, sample_data, df
XlDefine ==
    XlStep("xl_define", "xl_writer", wb, {"header"}, <<>>)

\* the workbook after df.to_excel(writer, sheet_name='Job Applications')
xl_written ==
    [NoWorkbook EXCEPT !.kind = "workbook",
                       !.cells = DataFrameRows(xl_headers, sample_data),
                       !.sheets = <<"Job Applications">>]

\* pd.ExcelWriter(output_file) and df.to_excel: the header row and the sample rows
\* reach the worksheet.  Whether the writer already opens (and empties) the file
\* depends on the pandas version.
XlOpenWriter ==
    /\ pc = "xl_writer"
    /\ pc' = "xl_header_font"
    /\ wb' = xl_written
    /\ handed' = Append(handed, Op("header"))
    /\ \/ disk' = disk
       \/ disk' = [disk EXCEPT ![args.output_file] = [NoWorkbook EXCEPT !.kind = "empty"]]
    /\ UNCHANGED <<args, outcome, ret, printed, invoked, built, requests, docs,
                   api_calls, calls>>

\* the path cannot be opened for writing
XlOpenWriterFails == XlRaise("xl_writer", <<>>)

\* the cells of row 1 the loop `for col_num, header in enumerate(headers, 1)` bolds
xl_bold_cells == {<<1, col_num>> : col_num \in 1..Len(xl_headers)}

XlFormatHeaders ==
    XlStep("xl_header_font", "xl_widths", [wb EXCEPT !.bold = xl_bold_cells],
           {"header_format"}, <<"header_format">>)

XlColumnWidths ==
    XlStep("xl_widths", "xl_validation", [wb EXCEPT !.column_dimensions = xl_column_widths],
           {"column_widths"}, <<"column_widths">>)

XlDataValidation ==
    XlStep("xl_validation", "xl_colors", [wb EXCEPT !.data_validations = @ \cup {xl_dv}],
           {"validation"}, <<"validation">>)

XlStatusColors ==
    XlStep("xl_colors", "xl_cf", wb, {}, <<>>)

XlConditionalFormatting ==
    XlStep("xl_cf", "xl_freeze",
           [wb EXCEPT !.conditional_formatting = @ \cup xl_conditional_formatting],
           {"highlight"}, <<"highlight">>)

XlFreeze ==
    XlStep("xl_freeze", "xl_dashboard", [wb EXCEPT !.freeze_panes = xl_freeze_panes],
           {"freeze"}, <<"freeze">>)

\* workbook.create_sheet (the title is written without its emoji), the merged
\* title cell A1:D1
XlDashboard ==
    XlStep("xl_dashboard", "xl_metrics",
           [wb EXCEPT !.sheets = Append(@, "Dashboard"),
                      !.dashboard_cells = @ \cup
                          {[row |-> 1, col |-> 1, what |-> "title",
                            label |-> "Job Application Dashboard", formula |-> NoFormula]}],
           {}, <<"dashboard">>)

XlMetrics ==
    XlStep("xl_metrics", "xl_pie", [wb EXCEPT !.dashboard_cells = @ \cup xl_metric_cells],
           {"metrics"}, <<"metrics">>)

XlPie ==
    XlStep("xl_pie", "xl_bar", [wb EXCEPT !.charts = Append(@, xl_pie)],
           {"pie_chart"}, <<"pie_chart">>)

XlBar ==
    XlStep("xl_bar", "xl_save", [wb EXCEPT !.charts = Append(@, xl_bar)],
           {"bar_chart"}, <<"bar_chart">>)

\* workbook.save(output_file); the function ends and returns None
XlSave ==
    /\ pc = "xl_save"
    /\ pc' = "idle"
    /\ disk' = [disk EXCEPT ![args.output_file] = wb]
    /\ outcome' = "returned"
    /\ ret' = None
    /\ printed' = Append(printed, "excel created")
    /\ handed' = Append(handed, Op("save"))
    /\ UNCHANGED <<args, invoked, built, wb, requests, docs, api_calls, calls>>

\* the file cannot be written
XlSaveFails == XlRaise("xl_save", <<"save">>)

---------------------------------------------------------------------------
(* create_google_sheets_job_tracker, statement by statement *)

\* a direct call create_google_sheets_job_tracker(creds_file, sheet_name)
CallSheets ==
    \E c \in CredsInputs, n \in SheetNames :
        BeginRun("gs_check", [NoArgs EXCEPT !.creds_file = c, !.sheet_name = n],
                 <<"sheets">>)

\* the check without its os.path.exists half
NoCredentialsNoExists(creds_file) ==
    \/ creds_file = None
    \/ creds_file = ""

\* `not creds_file or not os.path.exists(creds_file)`
NoCredentials(creds_file) ==
    \/ creds_file = None
    \/ creds_file = ""
    \/ creds_file \notin ExistingFiles

\* the early return: a message, no call, None
GsNoCredentials ==
    /\ pc = "gs_check"
    /\ NoCredentials(args.creds_file)
    /\ pc' = "idle"
    /\ outcome' = "returned"
    /\ ret' = None
    /\ printed' = Append(printed, "credentials required")
    /\ UNCHANGED <<args, invoked, built, handed, wb, disk, requests, docs, api_calls, calls>>

GsHasCredentials ==
    /\ pc = "gs_check"
    /\ ~NoCredentials(args.creds_file)
    /\ pc' = "gs_auth"
    /\ UNCHANGED <<args, outcome, ret, printed, invoked, built, handed, wb, disk,
                   requests, docs, api_calls, calls>>

\* the statements that call the service, and the call each one makes
GsCallAt ==
    ("gs_auth" :> "authorize" @@ "gs_create" :> "create" @@ "gs_worksheet" :> "update_title"
      @@ "gs_append" :> "header" @@ "gs_format" :> "header_format"
      @@ "gs_resize" :> "column_widths" @@ "gs_validation" :> "validation"
      @@ "gs_dashboard" :> "add_worksheet" @@ "gs_batch" :> "batch_update")

\* the try block closed before the batched update
InTryWithoutBatch(p) ==
    p \in {"gs_auth", "gs_create", "gs_worksheet", "gs_append", "gs_format", "gs_resize",
           "gs_validation", "gs_colors", "gs_freeze", "gs_dashboard", "gs_dash_header",
           "gs_metrics", "gs_pie", "gs_bar"}

\* the positions inside the try block
InTry(p) ==
    p \in {"gs_auth", "gs_create", "gs_worksheet", "gs_append", "gs_format", "gs_resize",
           "gs_validation", "gs_colors", "gs_freeze", "gs_dashboard", "gs_dash_header",
           "gs_metrics", "gs_pie", "gs_bar", "gs_batch", "gs_return"}

\* the document this run created: the last one
CurrentDoc == docs[Len(docs)]

\* the instruction each of these statements constructs before it makes its call
GsConstructsAt ==
    ("gs_auth" :> {} @@ "gs_create" :> {} @@ "gs_worksheet" :> {}
      @@ "gs_append" :> {"header"} @@ "gs_format" :> {"header_format"}
      @@ "gs_resize" :> {"column_widths"} @@ "gs_validation" :> {"validation"}
      @@ "gs_dashboard" :> {} @@ "gs_batch" :> {})

\* a statement that calls the service and succeeds
GsCall(from, to, newdocs) ==
    /\ pc = from
    /\ pc' = to
    /\ docs' = newdocs
    /\ built' = built \cup GsConstructsAt[from]
    /\ handed' = Append(handed, Op(GsCallAt[from]))
    /\ api_calls' = api_calls + 1
    /\ UNCHANGED <<args, outcome, ret, printed, invoked, wb, disk, requests, calls>>

\* a statement that only extends the list `requests`
GsBuild(from, to, more, constructs) ==
    /\ pc = from
    /\ pc' = to
    /\ requests' = requests \o more
    /\ built' = built \cup constructs
    /\ UNCHANGED <<args, outcome, ret, printed, invoked, handed, wb, disk, docs,
                   api_calls, calls>>

\* a call to the service raises: `except Exception` prints and returns None when
\* the statement is inside the try block, otherwise the exception leaves the function
GsFail ==
    /\ pc \in DOMAIN GsCallAt
    /\ built' = built \cup GsConstructsAt[pc]
    /\ handed' = Append(handed, FailedOp(GsCallAt[pc]))
    /\ api_calls' = api_calls + 1
    /\ pc' = "idle"
    /\ IF InTry(pc)
       THEN /\ outcome' = "returned"
            /\ ret' = None
            /\ printed' = Append(printed, "error creating")
       ELSE /\ outcome' = "raised"
            /\ UNCHANGED <<ret, printed>>
    /\ UNCHANGED <<args, invoked, wb, disk, requests, docs, calls>>

\* Credentials.from_service_account_file, gspread.authorize
GsAuthorize == GsCall("gs_auth", "gs_create", docs)

\* client.create(sheet_name)
GsCreate ==
    GsCall("gs_create", "gs_worksheet",
           Append(docs, NewDocument(args.sheet_name, Len(docs) + 1)))

\* spreadsheet.get_worksheet(0).update_title("Job Applications")
GsWorksheet ==
    GsCall("gs_worksheet", "gs_append",
           [docs EXCEPT ![Len(docs)].sheet_title = "Job Applications"])

\* headers; worksheet.append_row(headers): the row after the last row with data
GsAppendHeaders ==
    GsCall("gs_append", "gs_format",
           [docs EXCEPT ![Len(docs)].cells = Append(@, gs_headers)])

GsFormatHeaders ==
    GsCall("gs_format", "gs_resize",
           [docs EXCEPT ![Len(docs)].formats = @ \cup {gs_header_format}])

GsResizeColumns ==
    GsCall("gs_resize", "gs_validation",
           [docs EXCEPT ![Len(docs)].column_widths = gs_column_widths])

\* worksheet.set_data_validation(range_notation, validation_rule)
gs_dv == [range |-> gs_range_notation, rule |-> gs_validation_rule]

GsDataValidation ==
    GsCall("gs_validation", "gs_colors",
           [docs EXCEPT ![Len(docs)].validations = @ \cup {gs_dv}])

\* status_colors; requests = []; the loop appending one rule request per status
GsConditionalFormatting ==
    GsBuild("gs_colors", "gs_freeze", gs_cf_requests, {"highlight"})

GsFreeze ==
    GsBuild("gs_freeze", "gs_dashboard", <<freeze_request>>, {"freeze"})

\* spreadsheet.add_worksheet(title="Dashboard", rows=100, cols=20)
GsAddDashboard ==
    GsCall("gs_dashboard", "gs_dash_header",
           [docs EXCEPT ![Len(docs)].has_dashboard = TRUE])

GsDashboardHeader ==
    GsBuild("gs_dash_header", "gs_metrics", <<dashboard_header_request>>, {})

GsMetrics ==
    GsBuild("gs_metrics", "gs_pie", gs_metric_requests, {"metrics"})

\* the pie chart request followed at once by the batched update
GsPieThenBatch ==
    GsBuild("gs_pie", "gs_batch", <<pie_chart_request>>, {"pie_chart"})

GsPie ==
    GsBuild("gs_pie", "gs_bar", <<pie_chart_request>>, {"pie_chart"})

GsBar ==
    GsBuild("gs_bar", "gs_batch", <<bar_chart_request>>, {"bar_chart"})

\* spreadsheet.batch_update(requests): the service applies all of them or none
GsBatchUpdate ==
    GsCall("gs_batch", "gs_return",
           [docs EXCEPT ![Len(docs)] = ApplyBatch(@, requests)])

\* print(...); return spreadsheet.url
GsReturn ==
    /\ pc = "gs_return"
    /\ pc' = "idle"
    /\ outcome' = "returned"
    /\ ret' = CurrentDoc.url
    /\ printed' = Append(printed, "sheets created")
    /\ UNCHANGED <<args, invoked, built, handed, wb, disk, requests, docs, api_calls, calls>>

---------------------------------------------------------------------------
(* main *)

\* the menu is printed and the choice is read
Main == BeginRun("main_choice", NoArgs, <<"main">>)

\* choice == '1': the file name is read, the local builder is called
MainExcel ==
    \E f \in FilenameInputs :
        /\ pc = "main_choice"
        /\ pc' = "xl_define"
        /\ args' = [args EXCEPT !.choice = "1", !.entered = <<"1", f>>,
                                !.output_file = OrDefault(f, DefaultOutputFile)]
        /\ invoked' = Append(invoked, "excel")
        /\ UNCHANGED <<outcome, ret, printed, built, handed, wb, disk, requests, docs,
                       api_calls, calls>>

\* choice == '2': the credentials path and the name are read, the remote builder is called
MainSheets ==
    \E c \in CredsPathInputs, n \in SheetNameInputs :
        /\ pc = "main_choice"
        /\ pc' = "gs_check"
        /\ args' = [args EXCEPT !.choice = "2", !.entered = <<"2", c, n>>,
                                !.creds_file = c,
                                !.sheet_name = OrDefault(n, DefaultSheetName)]
        /\ invoked' = Append(invoked, "sheets")
        /\ UNCHANGED <<outcome, ret, printed, built, handed, wb, disk, requests, docs,
                       api_calls, calls>>

\* any other choice: the message, and then the local builder with its default
MainInvalidRunsExcel ==
    \E ch \in MenuInputs \ {"1", "2"} :
        /\ pc = "main_choice"
        /\ pc' = "xl_define"
        /\ args' = [args EXCEPT !.choice = ch, !.entered = <<ch>>,
                                !.output_file = DefaultOutputFile]
        /\ printed' = Append(printed, "invalid choice")
        /\ invoked' = Append(invoked, "excel")
        /\ UNCHANGED <<outcome, ret, built, handed, wb, disk, requests, docs,
                       api_calls, calls>>

\* any other choice: a message, nothing else
MainInvalid ==
    \E ch \in MenuInputs \ {"1", "2"} :
        /\ pc = "main_choice"
        /\ pc' = "idle"
        /\ args' = [args EXCEPT !.choice = ch, !.entered = <<ch>>]
        /\ outcome' = "returned"
        /\ printed' = Append(printed, "invalid choice")
        /\ UNCHANGED <<ret, invoked, built, handed, wb, disk, requests, docs,
                       api_calls, calls>>

---------------------------------------------------------------------------
(* The program *)

Next ==
    \/ CallExcel \/ XlDefine \/ XlOpenWriter \/ XlOpenWriterFails \/ XlFormatHeaders
    \/ XlColumnWidths \/ XlDataValidation \/ XlStatusColors \/ XlConditionalFormatting
    \/ XlFreeze \/ XlDashboard \/ XlMetrics \/ XlPie \/ XlBar \/ XlSave \/ XlSaveFails
    \/ CallSheets \/ GsNoCredentials \/ GsHasCredentials \/ GsFail \/ GsAuthorize
    \/ GsCreate \/ GsWorksheet \/ GsAppendHeaders \/ GsFormatHeaders \/ GsResizeColumns
    \/ GsDataValidation \/ GsConditionalFormatting \/ GsFreeze \/ GsAddDashboard
    \/ GsDashboardHeader \/ GsMetrics \/ GsPie \/ GsBar \/ GsBatchUpdate \/ GsReturn
    \/ Main \/ MainExcel \/ MainSheets \/ MainInvalid

Spec == Init /\ [][Next]_vars

---------------------------------------------------------------------------
(* The spreadsheet engine: how a finished tracker evaluates what was emitted *)

\* the value of a cell of the tracker sheet; a cell below the last row is blank
CellValue(cells, row, col) ==
    IF row \in DOMAIN cells THEN cells[row][col] ELSE ""

\* upper-casing, for the texts a status cell holds in this model
UpperCase(s) ==
    CASE s \in {"Applied", "applied"} -> "APPLIED"
      [] s = "Interview Scheduled" -> "INTERVIEW SCHEDULED"
      [] s = "Offer" -> "OFFER"
      [] s = "Rejected" -> "REJECTED"
      [] s = "Followed Up" -> "FOLLOWED UP"
      [] s = "No Response" -> "NO RESPONSE"
      [] s = "On Hold" -> "ON HOLD"
      [] s = "Pending" -> "PENDING"
      [] s = "Application Status" -> "APPLICATION STATUS"
      [] OTHER -> s

\* the comparison operator = of a formula, and the match of a COUNTIF criterion
\* without wildcards: both engines compare texts ignoring letter case
TextEquals(a, b) == UpperCase(a) = UpperCase(b)

\* $I2="<literal>" evaluated for the cell at `row` of a range starting at firstRow:
\* the column is fixed, the row moves with the cell
EvalStatusFormula(f, cells, row, firstRow) ==
    TextEquals(CellValue(cells, f.row + (row - firstRow), column_index(f.col)), f.literal)

\* Excel: the rule bound to sqref formats the cell
XlRuleApplies(binding, cells, row, col) ==
    /\ InRange(binding.sqref, row, col)
    /\ EvalStatusFormula(binding.rule.formula, cells, row, binding.sqref.r1)

\* the rules of the workbook that format a cell
XlApplying(w, row, col) ==
    {x.rule : x \in {y \in w.conditional_formatting : XlRuleApplies(y, w.cells, row, col)}}

\* the fills the workbook's rules give a cell
XlFills(w, row, col) == {rule.fill : rule \in XlApplying(w, row, col)}

\* the rules (by the status they test) that format some cell of the row
XlMatchingRules(w, row) ==
    UNION {{rule.formula.literal : rule \in XlApplying(w, row, col)} :
              col \in 1..Len(xl_headers)}

\* Excel: the cells of a Reference (rows and columns one based, both ends included)
RefCovers(ref, row, col) ==
    /\ ref.min_row <= row /\ row <= ref.max_row
    /\ ref.min_col <= col /\ col <= ref.max_col

\* Sheets: a GridRange (zero based, end exclusive) covers the cell (row, col)
GridCovers(gr, row, col) ==
    /\ gr.startRowIndex < row
    /\ gr.endRowIndex = Unbounded \/ row <= gr.endRowIndex
    /\ gr.startColumnIndex < col
    /\ col <= gr.endColumnIndex

GsRuleApplies(rule, cells, row, col) ==
    /\ GridCovers(rule.range, row, col)
    /\ EvalStatusFormula(rule.formula, cells, row, rule.range.startRowIndex + 1)

\* the rules of the document that format a cell
GsApplying(doc, row, col) ==
    {doc.cf[k] : k \in {j \in DOMAIN doc.cf : GsRuleApplies(doc.cf[j], doc.cells, row, col)}}

GsFills(doc, row, col) == {rule.backgroundColor : rule \in GsApplying(doc, row, col)}

GsMatchingRules(doc, row) ==
    UNION {{rule.formula.literal : rule \in GsApplying(doc, row, col)} :
              col \in 1..Len(gs_headers)}

\* Excel: a value the list validation lets into a cell of its range
XlAccepts(dv, value) ==
    \/ dv.allow_blank /\ value = ""
    \/ dv.type = "list" /\ value \in Range(SplitComma(dv.formula1, <<>>))

\* Sheets: a value a ONE_OF_LIST rule lets into a cell of its range; clearing a
\* cell is never rejected
GsAccepts(rule, value) ==
    \/ value = ""
    \/ rule.type = "ONE_OF_LIST" /\ value \in Range(rule.values)

\* a COUNTIF criterion: "*" matches every cell that holds a text, any other
\* criterion of the tables (none has a wildcard) the cells equal to it
CriterionMatches(criterion, value) ==
    IF criterion = "*" THEN value # "" ELSE TextEquals(value, criterion)

\* COUNTIF('Job Applications'!I:I, criterion): the whole column, row 1 included
CountIf(f, cells) ==
    Cardinality({r \in DOMAIN cells :
                    CriterionMatches(f.criterion, CellValue(cells, r, column_index(f.c1)))})

---------------------------------------------------------------------------
(* A finished tracker in use: rows are added below the existing ones *)

\* the workbook create_excel_job_tracker saves
XlFinalWorkbook ==
    [xl_written EXCEPT !.bold = xl_bold_cells,
                       !.column_dimensions = xl_column_widths,
                       !.data_validations = {xl_dv},
                       !.conditional_formatting = xl_conditional_formatting,
                       !.freeze_panes = xl_freeze_panes,
                       !.sheets = <<"Job Applications", "Dashboard">>,
                       !.dashboard_cells = xl_metric_cells \cup
                           {[row |-> 1, col |-> 1, what |-> "title",
                             label |-> "Job Application Dashboard", formula |-> NoFormula]},
                       !.charts = <<xl_pie, xl_bar>>]

\* the list `requests` when batch_update is called
GsFinalRequests ==
    gs_cf_requests \o <<freeze_request, dashboard_header_request>> \o gs_metric_requests
        \o <<pie_chart_request, bar_chart_request>>

\* the document a successful create_google_sheets_job_tracker leaves
GsFinalDocument(name, n) ==
    ApplyBatch([NewDocument(name, n) EXCEPT !.sheet_title = "Job Applications",
                                            !.cells = <<gs_headers>>,
                                            !.formats = {gs_header_format},
                                            !.column_widths = gs_column_widths,
                                            !.validations = {gs_dv},
                                            !.has_dashboard = TRUE],
               GsFinalRequests)

\* what a status cell may come to hold: the seven statuses, nothing, and texts
\* outside the list (pasted or written by a program, which validation does not stop)
StatusInputs ==
    {"Applied", "Interview Scheduled", "Offer", "Rejected", "Followed Up", "No Response",
     "On Hold", "", "applied", "Pending"}

\* the row a user adds: a status, the other cells blank
NewRow(status) == [i \in 1..12 |-> IF i = 9 THEN status ELSE ""]

\* a tracker has been produced by one successful run of either builder
SheetInit ==
    /\ pc = "idle"
    /\ outcome = "returned"
    /\ printed = <<>>
    /\ built = {}
    /\ handed = <<>>
    /\ requests = <<>>
    /\ calls = 1
    /\ \/ /\ invoked = <<"excel">>
          /\ args = [NoArgs EXCEPT !.output_file = DefaultOutputFile]
          /\ ret = None
          /\ wb = XlFinalWorkbook
          /\ disk = [f \in OutputFiles |->
                        IF f = DefaultOutputFile THEN XlFinalWorkbook ELSE NoWorkbook]
          /\ docs = <<>>
          /\ api_calls = 0
       \/ /\ invoked = <<"sheets">>
          /\ args = [NoArgs EXCEPT !.creds_file = "creds.json",
                                   !.sheet_name = DefaultSheetName]
          /\ ret = Url(1)
          /\ wb = NoWorkbook
          /\ disk = [f \in OutputFiles |-> NoWorkbook]
          /\ docs = <<GsFinalDocument(DefaultSheetName, 1)>>
          /\ api_calls = 9

\* the rows of the saved workbook's tracker sheet
XlCells == disk[DefaultOutputFile].cells

\* a row is added to the saved workbook
EnterStatusExcel ==
    \E v \in StatusInputs :
        /\ disk[DefaultOutputFile].kind = "workbook"
        /\ Len(XlCells) < 1 + Len(sample_data) + MaxRows
        /\ disk' = [disk EXCEPT ![DefaultOutputFile].cells = Append(@, NewRow(v))]
        /\ UNCHANGED <<pc, args, outcome, ret, printed, invoked, built, handed, wb,
                       requests, docs, api_calls, calls>>

\* a row is added to the remote document
EnterStatusSheets ==
    \E v \in StatusInputs :
        /\ docs # <<>>
        /\ Len(docs[1].cells) < 1 + MaxRows
        /\ docs' = [docs EXCEPT ![1].cells = Append(@, NewRow(v))]
        /\ UNCHANGED <<pc, args, outcome, ret, printed, invoked, built, handed, wb,
                       disk, requests, api_calls, calls>>

SheetNext == EnterStatusExcel \/ EnterStatusSheets

SheetSpec == SheetInit /\ [][SheetNext]_vars

---------------------------------------------------------------------------
(* Properties *)

\* the operations of the current run, in order, and those that took effect
HandedOps == [i \in DOMAIN handed |-> handed[i].op]
OkOps == {handed[i].op : i \in {j \in DOMAIN handed : handed[j].ok}}
FailedOps == {handed[i].op : i \in {j \in DOMAIN handed : ~handed[j].ok}}

\* the remote builder is running or was the last to run
SheetsRun == \E i \in DOMAIN invoked : invoked[i] = "sheets"
ExcelRun == \E i \in DOMAIN invoked : invoked[i] = "excel"

\* the run of the remote builder has ended
SheetsEnded == SheetsRun /\ pc = "idle"

\* no usable credentials: None, the empty string, or a path without a file
CredentialsAbsent ==
    args.creds_file \in {None, ""} \/ args.creds_file \notin ExistingFiles

\* the calls of a complete remote run, in order
GsAllCalls ==
    <<"authorize", "create", "update_title", "header", "header_format", "column_widths",
      "validation", "add_worksheet", "batch_update">>

\* the sink operations of a complete local run, in order
XlAllOps ==
    <<"header", "header_format", "column_widths", "validation", "highlight", "freeze",
      "dashboard", "metrics", "pie_chart", "bar_chart", "save">>

\* the instructions of a tracker
Instructions ==
    {"header", "header_format", "column_widths", "validation", "highlight", "freeze",
     "metrics", "pie_chart", "bar_chart"}

\* the sink operations that carry an instruction
InstructionOps == Instructions \cup {"batch_update"}

IsPrefix(s, t) == Len(s) <= Len(t) /\ \A i \in DOMAIN s : s[i] = t[i]

\* Lemma: a successful run leaves exactly the finished workbook / document
FinalArtifactLemma ==
    /\ (ExcelRun /\ pc = "idle" /\ outcome = "returned")
          => (disk[args.output_file] = XlFinalWorkbook /\ wb = XlFinalWorkbook)
    /\ (SheetsEnded /\ ret # None)
          => CurrentDoc = GsFinalDocument(args.sheet_name, Len(docs))

\* C1: a call of the remote builder without credentials (None, empty, or a path
\* with no file) takes one step: it issues no remote call, leaves the remote
\* documents as they are, prints the credentials-required message and returns
\* None; this holds for every such call of a sequence of calls.
C1_NoCredentialsNoRemoteCall ==
    [][(pc = "gs_check" /\ CredentialsAbsent)
          => /\ pc' = "idle"
             /\ outcome' = "returned"
             /\ ret' = None
             /\ printed' = Append(printed, "credentials required")
             /\ handed' = <<>>
             /\ api_calls' = api_calls
             /\ docs' = docs]_vars

\* C1 witness: the second call ran without credentials after a first call had
\* created a document, which is still the only one
C1_Witness ==
    /\ pc = "idle" /\ calls = 2 /\ SheetsRun
    /\ args.creds_file = "missing.json"
    /\ ret = None /\ printed = <<"credentials required">>
    /\ handed = <<>> /\ Len(docs) = 1 /\ api_calls > 0

\* C2: with credentials present, no failure of a remote call leaves the remote
\* builder as an exception; a run in which a call failed returns None, and a run
\* returns the document URL only when all nine calls, the batched update last,
\* took effect.
C2_FailuresCaughtAsNone ==
    (SheetsRun /\ ~CredentialsAbsent) =>
        /\ outcome # "raised"
        /\ (pc = "idle" /\ FailedOps # {}) => (outcome = "returned" /\ ret = None)
        /\ (pc = "idle" /\ ret # None) =>
              /\ HandedOps = GsAllCalls
              /\ FailedOps = {}
              /\ ret = CurrentDoc.url

\* C2 witness: the batched update failed and the run returned None
C2_Witness ==
    /\ SheetsEnded /\ ~CredentialsAbsent
    /\ Last(handed) = FailedOp("batch_update")
    /\ outcome = "returned" /\ ret = None

\* C3 (as claimed): when the remote builder has returned, the document it
\* created carries either the whole instruction set or none of it, and no remote
\* call was issued twice.
C3_AllOrNothing ==
    (SheetsEnded /\ "create" \in OkOps) =>
        /\ \/ CurrentDoc = GsFinalDocument(args.sheet_name, Len(docs))
           \/ CurrentDoc = NewDocument(args.sheet_name, Len(docs))
           \/ CurrentDoc = [NewDocument(args.sheet_name, Len(docs))
                               EXCEPT !.sheet_title = "Job Applications"]
        /\ \A i, j \in DOMAIN handed : handed[i].op = handed[j].op => i = j

StatusDomain ==
    {"Applied", "Interview Scheduled", "Offer", "Rejected", "Followed Up", "No Response",
     "On Hold"}

HeaderLabels ==
    <<"#", "Company Name", "Job Title", "Job Location", "Date Applied",
      "Job Posting Link", "Resume Link", "Cover Letter Link",
      "Application Status", "Follow-Up Date", "Response Received?", "Notes">>

\* the data rows of a tracker sheet, and the status a row holds
DataRows(cells) == 2..Len(cells)
StatusOf(cells, r) == cells[r][9]

\* the finished trackers in use: the saved workbook, the remote document
XlTracker == disk[DefaultOutputFile]
XlInUse == XlTracker.kind = "workbook"
GsInUse == docs # <<>>

\* the count a metric is claimed to show
ClaimedCount(f, cells) ==
    IF f.criterion = "*"
    THEN Cardinality({r \in DataRows(cells) : StatusOf(cells, r) # ""})
    ELSE Cardinality({r \in DataRows(cells) : StatusOf(cells, r) = f.criterion})

ValueCells(dashboard_cells) == {c \in dashboard_cells : c.what = "value"}

\* C5 (as claimed): every metric card shows the count of the data rows whose
\* status passes its filter: non-empty for "Total Applied", equal to the filter
\* for the other five.
C5_MetricsCountByFilter ==
    /\ XlInUse =>
          \A c \in ValueCells(XlTracker.dashboard_cells) :
              CountIf(c.formula, XlTracker.cells) = ClaimedCount(c.formula, XlTracker.cells)
    /\ GsInUse =>
          \A c \in ValueCells(docs[1].dashboard_cells) :
              CountIf(c.formula, docs[1].cells) = ClaimedCount(c.formula, docs[1].cells)

\* the fill of the colour table for a status
XlColor(status) ==
    xl_status_colors[CHOOSE k \in DOMAIN xl_status_colors : xl_status_colors[k][1] = status][2]
GsColor(status) ==
    gs_status_colors[CHOOSE k \in DOMAIN gs_status_colors : gs_status_colors[k][1] = status][2]

\* the rows looked at: every row of the sheet and the blank row below the last
RowsLookedAt(cells) == 1..(Len(cells) + 1)

\* C6 (as claimed): a data row whose status is a domain value S is matched by
\* exactly the rule for S and filled with color(S) in all 12 columns; a row whose
\* status is empty or any text outside the domain is matched by no rule.
C6_OnlyDomainStatusMatches ==
    /\ XlInUse =>
          \A r \in DataRows(XlTracker.cells) :
              LET st == StatusOf(XlTracker.cells, r)
              IN IF st \in StatusDomain
                 THEN /\ XlMatchingRules(XlTracker, r) = {st}
                      /\ \A col \in 1..12 : XlFills(XlTracker, r, col) = {XlColor(st)}
                 ELSE XlMatchingRules(XlTracker, r) = {}
    /\ GsInUse =>
          \A r \in DataRows(docs[1].cells) :
              LET st == StatusOf(docs[1].cells, r)
              IN IF st \in StatusDomain
                 THEN /\ GsMatchingRules(docs[1], r) = {st}
                      /\ \A col \in 1..12 : GsFills(docs[1], r, col) = {GsColor(st)}
                 ELSE GsMatchingRules(docs[1], r) = {}

\* the domain values a text equals when letter case is ignored
SameIgnoringCase(st) == {d \in StatusDomain : UpperCase(d) = UpperCase(st)}

\* C6 (amended): in both backends every row is matched by at most one rule; a
\* row whose status equals a domain value S, exactly or up to letter case, is
\* matched by exactly the rule for S and filled with color(S) in all 12 columns;
\* a row whose status is empty or differs from every domain value even when
\* letter case is ignored (and the header row, and a blank row) is matched by no
\* rule and has no fill.
C6_AtMostOneRulePerRow ==
    /\ XlInUse =>
          \A r \in RowsLookedAt(XlTracker.cells), col \in 1..12 :
              LET st == CellValue(XlTracker.cells, r, 9)
                  hit == IF r = 1 THEN {} ELSE SameIgnoringCase(st)
                  rules == XlApplying(XlTracker, r, col)
              IN /\ Cardinality(rules) <= 1
                 /\ {rule.formula.literal : rule \in rules} = hit
                 /\ {rule.fill : rule \in rules} = {XlColor(d) : d \in hit}
    /\ GsInUse =>
          \A r \in RowsLookedAt(docs[1].cells), col \in 1..12 :
              LET st == CellValue(docs[1].cells, r, 9)
                  hit == IF r = 1 THEN {} ELSE SameIgnoringCase(st)
                  rules == GsApplying(docs[1], r, col)
              IN /\ Cardinality(rules) <= 1
                 /\ {rule.formula.literal : rule \in rules} = hit
                 /\ {rule.backgroundColor : rule \in rules} = {GsColor(d) : d \in hit}

\* C6 witness: a tracker holds a row with a domain status, a row with a text
\* outside the domain that no rule matches, and a blank status
C6_Witness ==
    /\ GsInUse
    /\ Len(docs[1].cells) = 4
    /\ StatusOf(docs[1].cells, 2) = "Offer"
    /\ StatusOf(docs[1].cells, 3) = "Pending"
    /\ StatusOf(docs[1].cells, 4) = ""
    /\ GsMatchingRules(docs[1], 2) = {"Offer"}
    /\ GsMatchingRules(docs[1], 3) = {}

\* the trackers the builders have finished: the workbooks saved to a file, the
\* documents whose batched update took effect
FinishedWorkbooks == {disk[f] : f \in {g \in OutputFiles : disk[g].kind = "workbook"}}
FinishedDocs == {docs[i] : i \in {j \in DOMAIN docs : docs[j].charts # <<>>}}

\* Excel: the rules of a workbook and the ranges a rule is bound to
XlRules(w) == {b.rule : b \in w.conditional_formatting}
XlRangesOf(w, rule) == {b.sqref : b \in {x \in w.conditional_formatting : x.rule = rule}}

\* C7: each backend produces exactly 7 highlight rules, one per status of the
\* domain and none for another value; the target of every rule is exactly the
\* columns A-L (1..12) from row 2 down, never row 1, and its condition tests
\* column I (the 9th) of the row being formatted.
C7_SevenRulesSpanAToL ==
    /\ \A w \in FinishedWorkbooks :
          /\ Cardinality(XlRules(w)) = 7
          /\ {rule.formula.literal : rule \in XlRules(w)} = StatusDomain
          /\ \A rule \in XlRules(w) :
                /\ \A row \in {1, 2, 3, XlMaxRow}, col \in 1..13 :
                      (\E rg \in XlRangesOf(w, rule) : InRange(rg, row, col))
                          <=> (row >= 2 /\ col <= 12)
                /\ \A rg \in XlRangesOf(w, rule) : rule.formula.row = rg.r1
                /\ column_index(rule.formula.col) = 9
    /\ \A d \in FinishedDocs :
          /\ Len(d.cf) = 7
          /\ {d.cf[k].formula.literal : k \in DOMAIN d.cf} = StatusDomain
          /\ \A k \in DOMAIN d.cf :
                /\ \A row \in {1, 2, 3, XlMaxRow}, col \in 1..13 :
                      GridCovers(d.cf[k].range, row, col) <=> (row >= 2 /\ col <= 12)
                /\ d.cf[k].formula.row = d.cf[k].range.startRowIndex + 1
                /\ column_index(d.cf[k].formula.col) = 9

\* C7 witness: a saved workbook with its 84 bindings (7 rules on 12 column
\* ranges) and a document with its 7 rules
C7_Witness ==
    /\ \E w \in FinishedWorkbooks : Cardinality(w.conditional_formatting) = 84
    /\ \E d \in FinishedDocs : Len(d.cf) = 7

\* Excel: the values of the allow-list of a workbook, as the engine splits it
XlAllowList(w) == UNION {Range(SplitComma(dv.formula1, <<>>)) : dv \in w.data_validations}

\* C8: in each backend the validation allow-list, the statuses of the colour
\* table (the statuses the rules test) and the status domain are the same set of
\* 7 distinct values, the allow-list has exactly 7 entries, and every status has
\* exactly one colour.
C8_AllowListEqualsColourKeys ==
    /\ \A w \in FinishedWorkbooks :
          /\ XlAllowList(w) = StatusDomain
          /\ \A dv \in w.data_validations : Len(SplitComma(dv.formula1, <<>>)) = 7
          /\ {rule.formula.literal : rule \in XlRules(w)} = StatusDomain
          /\ \A st \in StatusDomain :
                Cardinality({rule.fill : rule \in {x \in XlRules(w) : x.formula.literal = st}}) = 1
    /\ \A d \in FinishedDocs :
          /\ \A v \in d.validations :
                /\ Range(v.rule.values) = StatusDomain
                /\ Len(v.rule.values) = 7
          /\ d.validations # {}
          /\ {d.cf[k].formula.literal : k \in DOMAIN d.cf} = StatusDomain
          /\ \A st \in StatusDomain :
                Cardinality({d.cf[k].backgroundColor :
                                k \in {j \in DOMAIN d.cf : d.cf[j].formula.literal = st}}) = 1
    /\ Cardinality(StatusDomain) = 7

\* C8 witness: a saved workbook whose allow-list splits into 7 values and a
\* document whose rule lists 7 values
C8_Witness ==
    /\ \E w \in FinishedWorkbooks : Cardinality(XlAllowList(w)) = 7
    /\ \E d \in FinishedDocs : \E v \in d.validations : Len(v.rule.values) = 7

\* C9: each backend produces exactly one validation rule; it covers column I
\* (the 9th) only, rows 2 to 1,048,576 locally and 2 to 1,000 remotely, never
\* row 1, and it lets in a blank value and each of the 7 domain values.
C9_OneValidationRuleOnStatusColumn ==
    /\ \A w \in FinishedWorkbooks :
          /\ Cardinality(w.data_validations) = 1
          /\ \A dv \in w.data_validations :
                /\ \A row \in {1, 2, 3, 1000, 1001, 1048576, 1048577}, col \in 8..10 :
                      InRange(dv.sqref, row, col) <=> (col = 9 /\ 2 <= row /\ row <= 1048576)
                /\ XlAccepts(dv, "")
                /\ \A st \in StatusDomain : XlAccepts(dv, st)
    /\ \A d \in FinishedDocs :
          /\ Cardinality(d.validations) = 1
          /\ \A v \in d.validations :
                /\ \A row \in {1, 2, 3, 1000, 1001}, col \in 8..10 :
                      InRange(v.range, row, col) <=> (col = 9 /\ 2 <= row /\ row <= 1000)
                /\ GsAccepts(v.rule, "")
                /\ \A st \in StatusDomain : GsAccepts(v.rule, st)

\* C9 witness: a saved workbook and a document, each with its validation rule
\* on I2 downwards
C9_Witness ==
    /\ \E w \in FinishedWorkbooks : \E dv \in w.data_validations : dv.sqref.r1 = 2
    /\ \E d \in FinishedDocs : \E v \in d.validations : v.range.r1 = 2 /\ v.range.c1 = "I"

\* C10: the header row of each backend is the 12 fixed labels in the fixed
\* order (so the same in both), at positions 1..12 = A..L, each position with
\* exactly one width; "Application Status" is at position 9; the whole header row
\* and nothing else is bold; exactly the header row is frozen.
C10_HeaderLayout ==
    /\ Len(HeaderLabels) = 12
    /\ \A w \in FinishedWorkbooks :
          /\ w.cells[1] = HeaderLabels
          /\ w.cells[1][9] = "Application Status"
          /\ DOMAIN w.column_dimensions = {get_column_letter(i) : i \in 1..12}
          /\ w.bold = {<<1, col>> : col \in 1..12}
          /\ w.freeze_panes.row - 1 = 1
          /\ column_index(w.freeze_panes.col) - 1 = 0
    /\ \A i \in DOMAIN docs :
          docs[i].cells # <<>> =>
              /\ docs[i].cells[1] = HeaderLabels
              /\ docs[i].cells[1][9] = "Application Status"
    /\ \A d \in FinishedDocs :
          /\ DOMAIN d.column_widths = 1..12
          /\ \A row \in 1..2, col \in 1..13 :
                (\E f \in d.formats : f.bold /\ InRange(f.range, row, col))
                    <=> (row = 1 /\ col <= 12)
          /\ d.frozenRowCount = 1

\* C10 witness: a saved workbook and a document whose first rows are the same
\* 12 labels
C10_Witness ==
    /\ \E w \in FinishedWorkbooks : \E d \in FinishedDocs :
          Len(w.cells[1]) = 12 /\ d.cells[1] = w.cells[1] /\ d.frozenRowCount = 1

\* the rows and columns the chart claims are looked at: around the header, around
\* row 100, and one column past the schema
ChartProbeRows == {1, 2, 3, 99, 100, 101}
ChartProbeCols == 1..13

\* the column a chart range is claimed to be: that column alone, from firstRow to row 100
IsColumnRange(covers(_, _), column, firstRow) ==
    \A row \in ChartProbeRows, col \in ChartProbeCols :
        covers(row, col) <=> (col = column /\ firstRow <= row /\ row <= 100)

\* C11: each backend has two charts; the pie chart reads only column I (9), the
\* bar chart column E (5, 'Date Applied') as categories and column A (1) as
\* values, all inside the 12 columns; every series (values) range starts at row 1,
\* every category range at row 2, and every range ends at row 100, whatever the
\* number of rows the tracker holds.
C11_ChartRanges ==
    /\ \A w \in FinishedWorkbooks :
          /\ Len(w.charts) = 2
          /\ w.charts[1].type = "pie" /\ w.charts[2].type = "bar"
          /\ LET pie == w.charts[1]
                 bar == w.charts[2]
                 PieCat(row, col) == RefCovers(pie.categories, row, col)
                 PieData(row, col) == RefCovers(pie.data, row, col)
                 BarCat(row, col) == RefCovers(bar.categories, row, col)
                 BarData(row, col) == RefCovers(bar.data, row, col)
             IN /\ IsColumnRange(PieCat, 9, 2)
                /\ IsColumnRange(PieData, 9, 1)
                /\ IsColumnRange(BarCat, 5, 2)
                /\ IsColumnRange(BarData, 1, 1)
                /\ pie.titles_from_data /\ bar.titles_from_data
          /\ w.cells[1][9] = "Application Status"
          /\ w.cells[1][5] = "Date Applied"
          /\ Len(w.cells) # 100
    /\ \A d \in FinishedDocs :
          /\ Len(d.charts) = 2
          /\ d.charts[1].type = "pie" /\ d.charts[2].type = "bar"
          /\ LET pie == d.charts[1]
                 bar == d.charts[2]
                 PieDomain(row, col) == GridCovers(pie.domain, row, col)
                 PieSeries(row, col) == GridCovers(pie.series, row, col)
                 BarDomain(row, col) == GridCovers(bar.domain, row, col)
                 BarSeries(row, col) == GridCovers(bar.series, row, col)
             IN /\ IsColumnRange(PieDomain, 9, 2)
                /\ IsColumnRange(PieSeries, 9, 1)
                /\ IsColumnRange(BarDomain, 5, 2)
                /\ IsColumnRange(BarSeries, 1, 1)
                /\ {pie.domain.sheet, pie.series.sheet, bar.domain.sheet, bar.series.sheet}
                      = {"tracker"}
          /\ d.cells[1][9] = "Application Status"
          /\ d.cells[1][5] = "Date Applied"
          /\ Len(d.cells) # 100

\* C11 witness: a saved workbook with three rows and a document with one row,
\* each with its two charts
C11_Witness ==
    /\ \E w \in FinishedWorkbooks : Len(w.charts) = 2 /\ Len(w.cells) = 3
    /\ \E d \in FinishedDocs : Len(d.charts) = 2 /\ Len(d.cells) = 1

\* the run in progress, or the last one, was started through main, and the
\* choice has been read
MainRun == invoked # <<>> /\ invoked[1] = "main" /\ args.entered # <<>>

\* the backends main has called, in order
Dispatched == SubSeq(invoked, 2, Len(invoked))

\* what main passes on where the entry may be empty
EnteredOr(i, default) == IF args.entered[i] = "" THEN default ELSE args.entered[i]

\* the choice read decides the backend and its arguments
DispatchOk ==
    MainRun =>
        /\ Len(Dispatched) <= 1
        /\ args.entered[1] = "1" =>
              /\ Dispatched = <<"excel">>
              /\ Len(args.entered) = 2
              /\ args.output_file = EnteredOr(2, "Job_Tracker.xlsx")
              /\ requests = <<>>
              /\ \A i \in DOMAIN handed : handed[i].op \notin {"authorize", "create"}
        /\ args.entered[1] = "2" =>
              /\ Dispatched = <<"sheets">>
              /\ Len(args.entered) = 3
              /\ args.creds_file = args.entered[2]
              /\ args.sheet_name = EnteredOr(3, "Job Tracker")
              /\ wb = NoWorkbook
        /\ args.entered[1] \notin {"1", "2"} =>
              /\ Dispatched = <<>>
              /\ pc = "idle" /\ outcome = "returned"
              /\ printed = <<"invalid choice">>
              /\ handed = <<>> /\ built = {} /\ requests = <<>> /\ wb = NoWorkbook

\* what a step of a run started through main may touch outside the run
DispatchStep ==
    MainRun' =>
        /\ args.entered # <<>> => args'.entered = args.entered
        /\ args'.entered[1] = "1" =>
              /\ docs' = docs /\ api_calls' = api_calls
              /\ \A f \in OutputFiles \ {args'.output_file} : disk'[f] = disk[f]
        /\ args'.entered[1] = "2" =>
              /\ disk' = disk
              /\ Len(docs') > Len(docs) => Last(docs').title = args'.sheet_name
        /\ args'.entered[1] \notin {"1", "2"} =>
              /\ disk' = disk /\ docs' = docs /\ api_calls' = api_calls

\* C12: a run of main calls at most one backend: choice '1' only the local
\* builder, with the file name entered or 'Job_Tracker.xlsx' when nothing was
\* entered; choice '2' only the remote builder, with the credentials path
\* entered and the name entered or 'Job Tracker'; any other choice prints the
\* invalid-choice message, calls neither builder, writes no file and makes no
\* remote call.
C12_MainDispatch == [][DispatchOk' /\ DispatchStep]_vars

\* C12 witness: main has returned after an invalid choice, with nothing done
C12_Witness ==
    /\ pc = "idle"
    /\ invoked = <<"main">>
    /\ args.entered = <<"3">>
    /\ printed = <<"invalid choice">>

\* a run of main with nothing entered for the file name has saved the default file
C12_WitnessExcelDefault ==
    /\ pc = "idle"
    /\ invoked = <<"main", "excel">>
    /\ args.entered = <<"1", "">>
    /\ disk["Job_Tracker.xlsx"] # NoWorkbook

\* a run of main with nothing entered for the name has created 'Job Tracker'
C12_WitnessSheetsDefault ==
    /\ pc = "idle"
    /\ invoked = <<"main", "sheets">>
    /\ args.entered = <<"2", "creds.json", "">>
    /\ docs # <<>> /\ Last(docs).title = "Job Tracker"

====
